---------------------------- MODULE Spec2Model ----------------------------
(***************************************************************************)
(* Model of the vox_box formant tracker (FormantExtractor, src/src/lib.rs, *)
(* repeated verbatim in src/src/spectrum.rs) and of the polynomial engine  *)
(* (src/src/polynomial.rs).                                                *)
(*                                                                         *)
(* Conventions.  Rust vectors are TLA+ sequences, so an index i of the     *)
(* source is the index i + 1 here.  Frequencies are integers (the          *)
(* tracker only compares, subtracts and takes absolute values).  An        *)
(* Option<T> is a record [some, v].  A Rust panic (an unwrap of None, an   *)
(* out-of-range slice, an arithmetic underflow) is an explicit outcome.    *)
(***************************************************************************)
EXTENDS Integers, Sequences, FiniteSets, TLC

\* ----------------------------------------------------------------- bounds
\* Frequencies of the enumerated priors and frames are 0 .. MaxFreq.
MaxFreq == 2
\* Longest enumerated prior (number of slots of the tracker).
MaxSlots == 3
\* Longest enumerated frame.
MaxFrameLen == 2
\* Longest enumerated frame sequence.
MaxFrames == 2
\* Longest enumerated coefficient slice (degree at most MaxLen - 1).
MaxLen == 4
\* Enumerated coefficients, divisors and workspace fill are 0 .. MaxCoeff.
MaxCoeff == 2
\* Calls made on one coefficient slice and workspace.
MaxCalls == 2

Freqs == 0..MaxFreq

SeqsUpTo(S, n) == UNION {[1..k -> S] : k \in 0..n}

\* ------------------------------------------------- the scenario of the test
\* test_formant_extractor: FormantExtractor::new(3, &resonances, [140, 230, 320]).
TestNumFormants == 3

TestPrior == <<140, 230, 320>>

TestFrames ==
  << <<100, 150, 200, 240, 300>>,
     <<110, 180, 210, 230, 310>>,
     <<230, 270, 290, 350, 360>> >>

TestExpected ==
  << <<150, 240, 300>>, <<180, 230, 310>>, <<230, 270, 290>> >>

\* ------------------------------------------------------------ tracker state
VARIABLES
  num_formants,        \* FormantExtractor.num_formants
  frame_index,         \* FormantExtractor.frame_index
  resonances,          \* FormantExtractor.resonances: the frame sequence
  estimates,           \* FormantExtractor.estimates
  ret,                 \* outcome of the last next(): [kind, val]
  starting_estimates,  \* history: the prior handed to new()
  pre_estimates,       \* history: estimates before the last next()
  emitted              \* history: the vectors returned as Some, in order

tvars == <<num_formants, frame_index, resonances, estimates, ret,
           starting_estimates, pre_estimates, emitted>>

\* --------------------------------------------------------- polynomial state
VARIABLES
  poly,      \* the coefficient slice self, caller-owned; index = power
  work,      \* the caller's workspace of find_roots_mut, kept across calls
  pret,      \* outcome of the last call: [op, res, other, roots, rem, passes]
  pre_poly,  \* history: self before the last call
  pre_work,  \* history: the workspace before the last call
  pcalls     \* number of calls made

pvars == <<poly, work, pret, pre_poly, pre_work, pcalls>>

\* ---------------------------------------------------------- resonance state
VARIABLES
  root_list,    \* the roots self handed to to_resonance
  sample_rate,  \* its sample_rate argument
  rret          \* outcome of the call: [op, opts, res]

rvars == <<root_list, sample_rate, rret>>

\* ---------------------------------------------------------------- lpc state
VARIABLES
  n_coeffs,  \* lpc_mut's n_coeffs
  lags,      \* self: the autocorrelation lags
  buf_ac,    \* the coefficient buffer ac
  buf_kc,    \* the reflection coefficient buffer kc
  buf_tmp,   \* the scratch buffer tmp
  err,       \* the local err
  lpc_i,     \* the outer loop's i, the next pass to run
  lpc_pc     \* "call", "loop", "done" or "panic"

lvars == <<n_coeffs, lags, buf_ac, buf_kc, buf_tmp, err, lpc_i, lpc_pc>>

\* ----------------------------------------------------------- resample state
VARIABLES
  rs_input,     \* the input buffer (input, size)
  rs_new_size,  \* new_size, the length of out
  rs_out,       \* the output buffer (out, new_size)
  rs_reads,     \* history: the pair of indices of buf read by each pass
  rs_i,         \* the loop's i, the next pass to run
  rs_pc         \* "loop", "done" or "panic"

svars == <<rs_input, rs_new_size, rs_out, rs_reads, rs_i, rs_pc>>

\* The variables of the signal-processing functions.
dvars == <<rvars, lvars, svars>>

vars == <<tvars, pvars, dvars>>

\* ------------------------------------------------------------ Option<T>
Some(v) == [some |-> TRUE, v |-> v]

None == [some |-> FALSE, v |-> 0]

Abs(x) == IF x < 0 THEN -x ELSE x

\* --------------------------------------------------------- slice::sort_by
\* sort_by is a stable sort.  SortIdx(key) is the list of the indices of key
\* ordered by key, equal keys keeping their original order (insertion sort).
RECURSIVE InsertIdx(_, _, _)
InsertIdx(s, i, key) ==
  IF s = <<>> THEN <<i>>
  ELSE IF key[Head(s)] <= key[i]
       THEN <<Head(s)>> \o InsertIdx(Tail(s), i, key)
       ELSE <<i>> \o s

RECURSIVE SortIdxUpTo(_, _)
SortIdxUpTo(key, n) ==
  IF n = 0 THEN <<>> ELSE InsertIdx(SortIdxUpTo(key, n - 1), n, key)

SortIdx(key) == SortIdxUpTo(key, Len(key))

\* A plausible slip: the final sort of the winners left out.
SortAsc_Unsorted(w) == w

\* winners.sort_by(|a, b| a.partial_cmp(b).unwrap())
SortAsc(w) == LET idx == SortIdx(w) IN [i \in 1..Len(w) |-> w[idx[i]]]

\* ------------------------------------------------ step 1: nearest match
\* A plausible slip: the sort made on the frame's values, whose closest one
\* is then no longer the one of lowest index at equal distance.
NearestPeak_ByValue(frame, estimate) ==
  LET vals == SortAsc(frame)
      dist == [a \in 1..Len(vals) |-> Abs(vals[a] - estimate)]
  IN  vals[Head(SortIdx(dist))]

\* The closure of the map over estimates: sort the frame's indices by the
\* distance to the estimate and take the first.  Needs a non-empty frame.
NearestPeak(frame, estimate) ==
  LET dist == [a \in 1..Len(frame) |-> Abs(frame[a] - estimate)]
      indices == SortIdx(dist)
      win == Head(indices)
  IN  frame[win]

AssignSlots(ests, frame) ==
  [i \in 1..Len(ests) |-> Some(NearestPeak(frame, ests[i]))]

\* indices.first().unwrap() panics on an empty frame; the closure runs once
\* per estimate, so there is no panic when there is no estimate.
AssignPanics(ests, frame) == Len(ests) > 0 /\ Len(frame) = 0

\* ------------------------------------------------ step 2: remove duplicates
\* The loop "for r in 1..slots.len()" with its variables w and has_unassigned;
\* r is the 1-based index of the slot looked at.  slots[w].unwrap() never
\* meets None: w starts at the first slot, which step 1 filled, moves only to
\* a slot just seen to hold a peak, and a slot is cleared only when w leaves it
\* or when it is not w.
RECURSIVE Dedup(_, _, _, _, _)
Dedup(slots, ests, w, has, r) ==
  IF r > Len(slots) THEN [slots |-> slots, has_unassigned |-> has]
  ELSE IF slots[r].some
       THEN LET v == slots[r].v IN
            IF v = slots[w].v
            THEN IF Abs(v - ests[r]) < Abs(v - ests[w])
                 THEN Dedup([slots EXCEPT ![w] = None], ests, r, TRUE, r + 1)
                 ELSE Dedup([slots EXCEPT ![r] = None], ests, w, TRUE, r + 1)
            ELSE Dedup(slots, ests, r, has, r + 1)
       ELSE Dedup(slots, ests, w, has, r + 1)

RemoveDuplicates(slots, ests) == Dedup(slots, ests, 1, FALSE, 2)

\* ------------------------------------------------ step 3: fill empty slots
Contains(slots, peak) == \E i \in 1..Len(slots) : slots[i] = peak

Swap(s, a, b) == [s EXCEPT ![a] = s[b], ![b] = s[a]]

\* A plausible slip: a peak that no slot holds is written into the slot of
\* its own index, occupied or not, without looking at the neighbours.
Fill_InPlace(slots, frame, j) ==
  [i \in 1..Len(slots) |->
     IF i >= j /\ i <= Len(frame) /\ ~Contains(slots, Some(frame[i]))
     THEN Some(frame[i])
     ELSE slots[i]]

\* A plausible slip: the fill step left out.
Fill_Skipped(slots, frame, j) == slots

\* The loop "for j in 0..frame.len()"; j is the 1-based index of the peak,
\* so the source's slots j-1, j, j+1 are the slots j-1, j, j+1 here and the
\* source's guard "j > 0 && j < slots.len()" reads j > 1 /\ j <= Len(slots).
RECURSIVE Fill(_, _, _)
Fill(slots, frame, j) ==
  IF j > Len(frame) THEN slots
  ELSE LET peak == Some(frame[j]) IN
       IF Contains(slots, peak) THEN Fill(slots, frame, j + 1)
       ELSE IF j <= Len(slots) /\ ~slots[j].some
            THEN Fill([slots EXCEPT ![j] = peak], frame, j + 1)
       ELSE IF j > 1 /\ j <= Len(slots) /\ ~slots[j - 1].some
            THEN Fill([Swap(slots, j, j - 1) EXCEPT ![j] = peak], frame, j + 1)
       ELSE IF j + 1 <= Len(slots) /\ ~slots[j + 1].some
            THEN Fill([Swap(slots, j, j + 1) EXCEPT ![j] = peak], frame, j + 1)
       ELSE Fill(slots, frame, j + 1)

\* ------------------------------------------------ step 4: the winners
IsWinner(s) == s.some /\ s.v > 0

Winners(slots) ==
  LET kept == SelectSeq(slots, IsWinner)
  IN  [i \in 1..Len(kept) |-> kept[i].v]

\* A plausible slip: one slot per peak of the frame, not one per estimate.
TrackSlots_PerPeak(ests, frame) == [j \in 1..Len(frame) |-> Some(frame[j])]

\* The slots at the end of next(), from the estimates and the frame.
TrackSlots(ests, frame) ==
  LET assigned == AssignSlots(ests, frame)
      dd == RemoveDuplicates(assigned, ests)
  IN  IF dd.has_unassigned THEN Fill(dd.slots, frame, 1) ELSE dd.slots

\* ------------------------------------------------------------ the tracker
\* FormantExtractor::new: the fields are taken as given; nothing relates
\* starting_estimates to num_formants.
TrackerInit ==
  /\ \/ /\ num_formants = TestNumFormants
        /\ resonances = TestFrames
        /\ starting_estimates = TestPrior
     \/ /\ num_formants \in 1..MaxSlots
        /\ resonances \in SeqsUpTo(SeqsUpTo(Freqs, MaxFrameLen), MaxFrames)
        /\ starting_estimates \in SeqsUpTo(Freqs, MaxSlots)
  /\ frame_index = 0
  /\ estimates = starting_estimates
  /\ pre_estimates = starting_estimates
  /\ emitted = <<>>
  /\ ret = [kind |-> "init", val |-> <<>>]

\* Iterator::next.  After a panic the tracker is not called again.
IteratorNext ==
  /\ ret.kind # "panic"
  /\ UNCHANGED <<num_formants, resonances, starting_estimates, pvars, dvars>>
  /\ IF Len(resonances) = frame_index
     THEN /\ ret' = [kind |-> "None", val |-> <<>>]
          /\ UNCHANGED <<frame_index, estimates, pre_estimates, emitted>>
     ELSE LET frame == resonances[frame_index + 1] IN
          IF AssignPanics(estimates, frame)
          THEN /\ ret' = [kind |-> "panic", val |-> <<>>]
               /\ UNCHANGED <<frame_index, estimates, pre_estimates, emitted>>
          ELSE LET winners == Winners(TrackSlots(estimates, frame)) IN
               /\ estimates' = winners
               /\ pre_estimates' = estimates
               /\ frame_index' = frame_index + 1
               /\ ret' = [kind |-> "Some", val |-> SortAsc(winners)]
               /\ emitted' = Append(emitted, SortAsc(winners))

\* ------------------------------------------------------------ scalars
\* Complex<T> is abstracted to the prime field of P elements, in which the
\* code's +, -, * and / are exact, together with one non-finite value that
\* every operation propagates (a complex division by zero).  -1 has a square
\* root in the field, so Cx maps the Gaussian integers onto it.  What depends
\* on floating-point magnitudes (which square root is the principal one, which
\* of two norms is the larger) is a choice among the possible outcomes.
P == 5

Field == 0..(P - 1)

NaN == P

Zero == 0

One == 1

ImagUnit == CHOOSE x \in Field : (x * x) % P = P - 1

Cx(re, im) == (re + im * ImagUnit) % P

FromInt(k) == k % P

Add(a, b) == IF a = NaN \/ b = NaN THEN NaN ELSE (a + b) % P

Neg(a) == IF a = NaN THEN NaN ELSE (P - a) % P

Subtract(a, b) == Add(a, Neg(b))

Mul(a, b) == IF a = NaN \/ b = NaN THEN NaN ELSE (a * b) % P

Div(a, b) ==
  IF a = NaN \/ b = NaN \/ b = Zero THEN NaN
  ELSE Mul(a, CHOOSE x \in Field : (b * x) % P = 1)

\* Complex::sqrt: a square root of a; where the field holds none, any value.
Sqrt(a) ==
  IF a = NaN THEN {NaN}
  ELSE LET rs == {x \in Field : (x * x) % P = a}
       IN  IF rs = {} THEN Field ELSE rs

\* The possible values of a.norm() > b.norm().
NormGreater(a, b) ==
  IF a = NaN \/ b = NaN \/ a = Zero THEN {FALSE}
  ELSE IF b = Zero THEN {TRUE}
  ELSE BOOLEAN

\* ------------------------------------------------------------ slices
\* The polynomial engine is written with the source's 0-based indices.
At(s, i) == s[i + 1]

Put(s, i, v) == [s EXCEPT ![i + 1] = v]

\* s[off .. off + n)
Slice(s, off, n) == [i \in 1..n |-> s[off + i]]

\* s with t written at s[off .. off + t.len())
Splice(s, off, t) ==
  [i \in 1..Len(s) |-> IF off < i /\ i <= off + Len(t) THEN t[i - off] ELSE s[i]]

Zeros(n) == [i \in 1..n |-> Zero]

NonZeroAt(s) == {i \in 0..(Len(s) - 1) : At(s, i) # Zero}

Highest(S) == CHOOSE x \in S : \A y \in S : y <= x

Lowest(S) == CHOOSE x \in S : \A y \in S : x <= y

\* rposition(|r| r != 0).unwrap_or(0)
Degree(s) == IF NonZeroAt(s) = {} THEN 0 ELSE Highest(NonZeroAt(s))

\* position(|r| r != 0).unwrap_or(0)
OffLow(s) == IF NonZeroAt(s) = {} THEN 0 ELSE Lowest(NonZeroAt(s))

\* ------------------------------------------------------------ laguerre
LaguerreMaxIter == 20

\* The Horner pass "for j in (0..n).rev()" on abg = [abg0, abg1, abg2].
RECURSIVE Horner(_, _, _, _)
Horner(c, z, abg, j) ==
  IF j < 0 THEN abg
  ELSE LET g == Add(Mul(At(abg, 2), z), At(abg, 1))
           b == Add(Mul(At(abg, 1), z), At(abg, 0))
           a == Add(Mul(At(abg, 0), z), At(c, j))
       IN  Horner(c, z, <<a, b, g>>, j - 1)

Abg(c, z) ==
  LET n == Len(c) - 1 IN Horner(c, z, <<At(c, n), Zero, Zero>>, n - 1)

\* abg[0].norm() <= 1e-16
Converged(c, z) == At(Abg(c, z), 0) = Zero

\* ca, the G of the iteration at z: abg[1].neg() / abg[0]
LaguerreG(c, z) == LET abg == Abg(c, z) IN Div(Neg(At(abg, 1)), At(abg, 0))

\* cb, the H of the iteration at z: ca2 - (2 * abg[2]) / abg[0]
LaguerreH(c, z) ==
  LET abg == Abg(c, z)
      ca == LaguerreG(c, z)
  IN  Subtract(Mul(ca, ca), Div(Mul(Add(One, One), At(abg, 2)), At(abg, 0)))

\* The value handed to sqrt in one iteration at z.
UnderRoot(c, z) ==
  LET n == Len(c) - 1
      abg == Abg(c, z)
      ca == Div(Neg(At(abg, 1)), At(abg, 0))
      ca2 == Mul(ca, ca)
      cb == Subtract(ca2, Div(Mul(Add(One, One), At(abg, 2)), At(abg, 0)))
  IN  Subtract(Mul(Mul(FromInt(n - 1), FromInt(n)), cb), ca2)

\* The possible values of z after one iteration that did not return.
LaguerreStep(c, z) ==
  LET n == Len(c) - 1
      abg == Abg(c, z)
      ca == Div(Neg(At(abg, 1)), At(abg, 0))
  IN  UNION { LET cc1 == Add(ca, c1)
                  cc2 == Subtract(ca, c1)
              IN  { Add(z, IF gt THEN Div(FromInt(n), cc1)
                                 ELSE Div(FromInt(n), cc2)) :
                    gt \in NormGreater(cc1, cc2) }
            : c1 \in Sqrt(UnderRoot(c, z)) }

\* The loop "for _ in 0..20": zs holds the possible values of z once k
\* iterations have run; the result is the set of runs [z, iters], z the value
\* returned and iters the number of iterations begun.
RECURSIVE LaguerreLoop(_, _, _)
LaguerreLoop(c, zs, k) ==
  IF k = LaguerreMaxIter THEN {[z |-> z, iters |-> k] : z \in zs}
  ELSE {[z |-> z, iters |-> k + 1] : z \in {y \in zs : Converged(c, y)}}
       \cup LaguerreLoop(c, UNION {LaguerreStep(c, y) :
                                   y \in {x \in zs : ~Converged(c, x)}}, k + 1)

\* laguerre(start), for a slice of at least two coefficients.
LaguerreRuns(c, start) == LaguerreLoop(c, {start}, 0)

\* The values of z at which one of the iterations from k on takes the square
\* root, zs holding the possible values of z once k iterations have run.
RECURSIVE LaguerreIterates(_, _, _)
LaguerreIterates(c, zs, k) ==
  IF k = LaguerreMaxIter \/ zs = {} THEN {}
  ELSE LET live == {z \in zs : ~Converged(c, z)}
       IN  live \cup LaguerreIterates(c, UNION {LaguerreStep(c, z) : z \in live},
                                     k + 1)

Laguerre(c, start) == {r.z : r \in LaguerreRuns(c, start)}

\* ------------------------------------------------------ div_polynomial_mut
\* "for i in (0..=(ns - ds)).rev()" with ds = 1: self[i] = rem[ds + i], then
\* the one item of rem the inner loop visits (j = i) loses self[i] * other.
RECURSIVE DivLoop(_, _, _, _)
DivLoop(self, rem, other, i) ==
  IF i < 0 THEN [self |-> self, rem |-> rem]
  ELSE LET q == At(rem, 1 + i)
       IN  DivLoop(Put(self, i, q),
                   Put(rem, i, Subtract(At(rem, i), Mul(q, other))),
                   other, i - 1)

\* n times: s[s.degree()] = 0
RECURSIVE ZeroTop(_, _)
ZeroTop(s, n) == IF n = 0 THEN s ELSE ZeroTop(Put(s, Degree(s), Zero), n - 1)

\* div_polynomial_mut(other, rem) on self; rem is at least as long as self.
\* The usize subtractions ns - ds and (l + 1) - ns - ds panic below zero.
DivPolynomialMut(self, other, rem0) ==
  LET rem == Splice(rem0, 0, self)
  IN  IF other # Zero
      THEN LET ns == Degree(self)
               ds == 1
           IN  IF ns - ds < 0
               THEN [res |-> "panic", self |-> self, rem |-> rem]
               ELSE LET dl == DivLoop(self, rem, other, ns - ds)
                        rem2 == ZeroTop(dl.rem, ns - ds + 1)
                        l == Degree(dl.self)
                    IN  IF (l + 1) - ns - ds < 0
                        THEN [res |-> "panic", self |-> dl.self, rem |-> rem2]
                        ELSE [res |-> "Ok",
                              self |-> ZeroTop(dl.self, (l + 1) - ns - ds + 1),
                              rem |-> rem2]
      ELSE [res |-> "Err", self |-> self, rem |-> rem]

\* ---------------------------------------------------------- find_roots_mut
\* find_roots_work_size
FindRootsWorkSize(self) == Len(self) * 6 + 4

\* The seed of the root finder, Complex::new(-2.0, -2.0).
Start == Cx(P - 2, P - 2)

\* The workspace is split into z_roots = work[0 .. 2 len), then rem and then
\* coeffs, each of k = coeff_high - coeff_low + 1 scalars.
RemOff(len) == 2 * len

CoeffsOff(len, k) == 2 * len + k

\* One pass of the deflation loop from the state st = [work, idx, m, res,
\* passes]: a Laguerre run on coeffs, the root stored, the linear factor
\* divided out.  passes is the history of the passes: the degree n that the
\* Laguerre run used, the working degree m it was entered with, the number of
\* iterations it began, and the degree of coeffs before and after the pass.
DeflateStep(st, len, k) ==
  LET coeffs == Slice(st.work, CoeffsOff(len, k), k)
      rem == Slice(st.work, RemOff(len), k)
  IN  { LET z == r.z
            w1 == Put(st.work, st.idx, z)
            dv == DivPolynomialMut(coeffs, Neg(z), rem)
            w2 == Splice(Splice(w1, CoeffsOff(len, k), dv.self),
                         RemOff(len), dv.rem)
            pass == [n |-> Len(coeffs) - 1, m |-> st.m, iters |-> r.iters,
                     from |-> Degree(coeffs), to |-> Degree(dv.self)]
        IN  [work |-> w2, idx |-> st.idx + 1,
             m |-> IF dv.res = "Ok" THEN st.m - 1 ELSE st.m,
             res |-> IF dv.res = "Ok" THEN "run" ELSE dv.res,
             passes |-> Append(st.passes, pass)]
      : r \in LaguerreRuns(coeffs, Start) }

\* "for _ in (3..=m).rev()": n passes from each of the states sts.
RECURSIVE Deflate(_, _, _, _)
Deflate(sts, len, k, n) ==
  IF n = 0 THEN sts
  ELSE Deflate(UNION {IF st.res = "run" THEN DeflateStep(st, len, k) ELSE {st} :
                      st \in sts}, len, k, n - 1)

\* The quadratic and the linear closer.
Closers(st, len, k) ==
  LET coeffs == Slice(st.work, CoeffsOff(len, k), k) IN
  IF st.m = 2
  THEN LET a2 == Add(At(coeffs, 2), At(coeffs, 2))
           x == Neg(At(coeffs, 1))
       IN  { [st EXCEPT !.work = Put(Put(st.work, st.idx, Div(Add(x, d), a2)),
                                     st.idx + 1, Div(Subtract(x, d), a2)),
                        !.idx = st.idx + 2]
           : d \in Sqrt(Subtract(Mul(At(coeffs, 1), At(coeffs, 1)),
                                 Mul(Mul(FromInt(4), At(coeffs, 2)),
                                     At(coeffs, 0)))) }
  ELSE IF st.m = 1
  THEN { [st EXCEPT !.work = Put(st.work, st.idx,
                                 Div(Neg(At(coeffs, 0)), At(coeffs, 1))),
                    !.idx = st.idx + 1] }
  ELSE {st}

\* The end of find_roots_mut: self[..=z_root_index] is copied from z_roots and
\* the rest of self is zeroed.  roots is the root list z_roots[0 .. z_root_index).
CopyOut(self, st) ==
  IF st.res # "run"
  THEN [res |-> st.res, self |-> self, work |-> st.work,
        roots |-> Slice(st.work, 0, st.idx), passes |-> st.passes]
  ELSE IF st.idx + 1 > Len(self)
  THEN [res |-> "panic", self |-> self, work |-> st.work,
        roots |-> Slice(st.work, 0, st.idx), passes |-> st.passes]
  ELSE [res |-> "Ok",
        self |-> Splice(Zeros(Len(self)), 0, Slice(st.work, 0, st.idx + 1)),
        work |-> st.work,
        roots |-> Slice(st.work, 0, st.idx), passes |-> st.passes]

\* find_roots_mut past the degree check.  coeffs[coeff_low..=coeff_high] is
\* out of the range of coeffs, which holds coeff_high - coeff_low + 1 scalars,
\* as soon as coeff_low > 0: the slice index panics.
FindRootsBody(self, work0) ==
  LET len == Len(self)
      coeff_high == Degree(self)
      coeff_low == OffLow(self)
      m == coeff_high - coeff_low
      k == coeff_high - coeff_low + 1
      w1 == Splice(work0, 0, Zeros(coeff_low))
  IN  IF coeff_high + 1 > k
      THEN {[res |-> "panic", self |-> self, work |-> w1,
             roots |-> Slice(w1, 0, coeff_low), passes |-> <<>>]}
      ELSE LET w2 == Splice(w1, CoeffsOff(len, k) + coeff_low,
                            Slice(self, coeff_low, k))
               st0 == [work |-> w2, idx |-> coeff_low, m |-> m, res |-> "run",
                       passes |-> <<>>]
               deflated == Deflate({st0}, len, k, IF m > 2 THEN m - 2 ELSE 0)
               closed == UNION {IF st.res = "run" THEN Closers(st, len, k)
                                ELSE {st} : st \in deflated}
           IN  {CopyOut(self, st) : st \in closed}

\* A plausible slip: the zero-degree check left out.
FindRootsMut_Unchecked(self, work0) == FindRootsBody(self, work0)

\* find_roots_mut(work) on self: the set of possible outcomes
\* [res, self, work, roots, passes].
FindRootsMut(self, work0) ==
  IF Degree(self) < 1
  THEN {[res |-> "Err", self |-> self, work |-> work0, roots |-> <<>>,
         passes |-> <<>>]}
  ELSE FindRootsBody(self, work0)

\* ------------------------------------------------------ polynomial calls
Coeffs == 0..MaxCoeff

\* A coefficient slice of the caller and a workspace of find_roots_work_size
\* scalars, which the caller may hand over holding any values; or, one
\* coefficient longer, a monic polynomial 1 + a z^(d-1) + z^d and the zeroed
\* workspace that find_roots allocates.
PolyInit ==
  /\ \/ /\ poly \in UNION {[1..n -> Coeffs] : n \in 1..MaxLen}
        /\ \E fill \in Coeffs :
              work = [i \in 1..FindRootsWorkSize(poly) |-> fill]
     \/ /\ poly \in {c \in [1..(MaxLen + 1) -> Coeffs] :
                        /\ c[1] = One
                        /\ c[MaxLen + 1] = One
                        /\ \A i \in 2..(MaxLen - 1) : c[i] = Zero}
        /\ work = Zeros(FindRootsWorkSize(poly))
  /\ pret = [op |-> "init", res |-> "Ok", other |-> Zero, roots |-> <<>>,
             rem |-> <<>>, passes |-> <<>>]
  /\ pre_poly = poly
  /\ pre_work = work
  /\ pcalls = 0

\* self.find_roots_mut(&mut work)
FindRootsCall ==
  /\ pcalls < MaxCalls
  /\ pret.res # "panic"
  /\ \E o \in FindRootsMut(poly, work) :
       /\ poly' = o.self
       /\ work' = o.work
       /\ pret' = [op |-> "find_roots_mut", res |-> o.res, other |-> Zero,
                   roots |-> o.roots, rem |-> <<>>, passes |-> o.passes]
  /\ pre_poly' = poly
  /\ pre_work' = work
  /\ pcalls' = pcalls + 1
  /\ UNCHANGED <<tvars, dvars>>

\* self.div_polynomial_mut(other, &mut rem) with a rem as long as self
DivCall ==
  /\ pcalls < MaxCalls
  /\ pret.res # "panic"
  /\ \E other \in Coeffs :
       LET o == DivPolynomialMut(poly, other, Zeros(Len(poly))) IN
       /\ poly' = o.self
       /\ pret' = [op |-> "div_polynomial_mut", res |-> o.res, other |-> other,
                   roots |-> <<>>, rem |-> o.rem, passes |-> <<>>]
  /\ pre_poly' = poly
  /\ pre_work' = work
  /\ pcalls' = pcalls + 1
  /\ UNCHANGED <<work, tvars, dvars>>

\* ------------------------------------------------------------ resonances
\* Longest enumerated root list.
MaxRoots == 2
\* The enumerated roots have re and im in -MaxCoord .. MaxCoord.
MaxCoord == 2
\* The lower of the two enumerated sample rates.
LowSampleRate == 8

\* test_resonances: roots.to_resonance(300f64)
TestSampleRate == 300

\* Angles are in thousandths of a degree and frequencies in 1/360000 Hz, so
\* that atan2(im, re) * sample_rate / (2 pi) is the integer
\* Atan2(im, re) * sample_rate and T::one() is OneHz.
OneHz == 360000

\* atan(y / x) for 0 <= y <= x, 0 < x, tabulated (rounded to the unit) for the
\* directions of the roots with coordinates up to 3.
OctantAtan(y, x) ==
  CASE y = 0 -> 0
    [] y # 0 /\ 3 * y = x -> 18435
    [] y # 0 /\ 2 * y = x -> 26565
    [] y # 0 /\ 3 * y = 2 * x -> 33690
    [] y # 0 /\ y = x -> 45000

\* atan2(y, x) for y >= 0: an angle of 0 to 180 degrees.
Atan2Upper(y, x) ==
  IF x > 0 THEN (IF y <= x THEN OctantAtan(y, x) ELSE 90000 - OctantAtan(x, y))
  ELSE IF x = 0 THEN (IF y = 0 THEN 0 ELSE 90000)
  ELSE 180000 - (IF y <= -x THEN OctantAtan(y, -x)
                 ELSE 90000 - OctantAtan(-x, y))

\* f64::atan2
Atan2(y, x) == IF y >= 0 THEN Atan2Upper(y, x) ELSE -Atan2Upper(-y, x)

\* A resonance; the amplitude sqrt(im^2 + re^2) is kept as its square.
Resonance(frequency, amplitude_sq) ==
  [frequency |-> frequency, amplitude_sq |-> amplitude_sq]

NoResonance == [some |-> FALSE, v |-> Resonance(0, 0)]

\* Resonance::from_root
FromRoot(root, rate) ==
  IF root.im >= 0
  THEN LET res == Resonance(Atan2(root.im, root.re) * rate,
                            root.im * root.im + root.re * root.re)
       IN  IF res.frequency > OneHz THEN Some(res) ELSE NoResonance
  ELSE NoResonance

IsSome(o) == o.some

\* to_resonance: the resonances of the roots that have one, in the roots'
\* order, then sorted by frequency (a stable sort).
ToResonance(roots, rate) ==
  LET kept == SelectSeq([i \in 1..Len(roots) |-> FromRoot(roots[i], rate)],
                        IsSome)
      idx == SortIdx([i \in 1..Len(kept) |-> kept[i].v.frequency])
  IN  [i \in 1..Len(kept) |-> kept[idx[i]].v]

Coords == (-MaxCoord)..MaxCoord

Grid == [re : Coords, im : Coords]

SampleRates == {LowSampleRate, TestSampleRate}

\* A root list and a sample rate, before the call.
ResonanceInit ==
  /\ root_list \in SeqsUpTo(Grid, MaxRoots)
  /\ sample_rate \in SampleRates
  /\ rret = [op |-> "init", opts |-> <<>>, res |-> <<>>]

\* roots.to_resonance(sample_rate); opts records what from_root returned for
\* each root.
ToResonanceCall ==
  /\ rret.op = "init"
  /\ rret' = [op |-> "to_resonance",
              opts |-> [i \in 1..Len(root_list) |->
                          FromRoot(root_list[i], sample_rate)],
              res |-> ToResonance(root_list, sample_rate)]
  /\ UNCHANGED <<root_list, sample_rate, tvars, pvars, lvars, svars>>

ResonanceIdle ==
  /\ root_list = <<>>
  /\ sample_rate = 0
  /\ rret = [op |-> "init", opts |-> <<>>, res |-> <<>>]

\* ------------------------------------------------------------ lpc scalars
\* The real numbers of lpc_mut are exact rationals [n, d] in lowest terms with
\* d > 0, together with one non-finite value (the result of a division by
\* zero and of every operation on it), for which every comparison is false.
RECURSIVE Gcd(_, _)
Gcd(a, b) == IF b = 0 THEN a ELSE Gcd(b, a % b)

Rat(n, d) ==
  LET g == Gcd(Abs(n), Abs(d))
      s == IF d < 0 THEN -1 ELSE 1
  IN  [n |-> (s * n) \div g, d |-> (s * d) \div g]

NonFinite == [n |-> 0, d |-> 0]

IsFinite(x) == x.d # 0

RFromInt(k) == [n |-> k, d |-> 1]

RAdd(x, y) ==
  IF IsFinite(x) /\ IsFinite(y) THEN Rat(x.n * y.d + y.n * x.d, x.d * y.d)
  ELSE NonFinite

RNeg(x) == IF IsFinite(x) THEN [n |-> -x.n, d |-> x.d] ELSE NonFinite

RSub(x, y) == RAdd(x, RNeg(y))

RMul(x, y) ==
  IF IsFinite(x) /\ IsFinite(y) THEN Rat(x.n * y.n, x.d * y.d) ELSE NonFinite

RDiv(x, y) ==
  IF IsFinite(x) /\ IsFinite(y) /\ y.n # 0 THEN Rat(x.n * y.d, x.d * y.n)
  ELSE NonFinite

\* x >= 0
RGeqZero(x) == IsFinite(x) /\ x.n >= 0

\* |x| <= 1
RAbsLeqOne(x) == IsFinite(x) /\ Abs(x.n) <= x.d

\* ------------------------------------------------------------ lpc_mut
\* Highest enumerated n_coeffs.
MaxOrder == 3
\* The enumerated autocorrelation lags are -MaxLag .. MaxLag.
MaxLag == 2

\* "for j in 1..i { acc = acc + (ac[j] * self[i-j]); }" from j on
RECURSIVE LpcAcc(_, _, _, _, _)
LpcAcc(self, ac, i, j, acc) ==
  IF j >= i THEN acc
  ELSE LpcAcc(self, ac, i, j + 1,
              RAdd(acc, RMul(At(ac, j), RFromInt(At(self, i - j)))))

\* A plausible slip: the whole of ac copied into tmp.
TmpCopyCount_Whole(n) == n + 1

\* "for j in 0..n_coeffs { tmp[j] = ac[j]; }": the number of items copied
TmpCopyCount(n) == n

CopyTmp(tmp, ac, n) ==
  [j \in 1..Len(tmp) |-> IF j <= TmpCopyCount(n) THEN ac[j] ELSE tmp[j]]

\* "for j in 1..i { ac[j] = ac[j] + (kc[i-1] * tmp[i-j]); }" from j on
RECURSIVE LpcUpdate(_, _, _, _, _)
LpcUpdate(ac, kc, tmp, i, j) ==
  IF j >= i THEN ac
  ELSE LpcUpdate(Put(ac, j, RAdd(At(ac, j),
                                 RMul(At(kc, i - 1), At(tmp, i - j)))),
                 kc, tmp, i, j + 1)

\* A plausible slip: the operands of the subtraction exchanged.
ErrUpdate_Exchanged(e, k) == RMul(e, RSub(RMul(k, k), RFromInt(1)))

\* err = err * (T::one() - (kc[i-1] * kc[i-1]))
ErrUpdate(e, k) == RMul(e, RSub(RFromInt(1), RMul(k, k)))

\* Every index that the pass i of the outer loop uses is inside its buffer:
\* self[i] and self[i-j], ac[i] and ac[j], kc[i-1], tmp[j] and ac[j] of the
\* copy, tmp[i-j] (j in 1..i).
LpcPassInRange(i, n, self, ac, kc, tmp) ==
  /\ i < Len(self)
  /\ i < Len(ac)
  /\ i - 1 < Len(kc)
  /\ TmpCopyCount(n) <= Len(tmp)
  /\ TmpCopyCount(n) <= Len(ac)
  /\ i >= 2 => i - 1 < Len(tmp)

\* The pass i of the outer loop, all indices being in range.
LpcPass(i, n, self, ac, kc, tmp, e) ==
  LET acc == LpcAcc(self, ac, i, 1, RFromInt(At(self, i)))
      k == RDiv(RNeg(acc), e)
      kc1 == Put(kc, i - 1, k)
      ac1 == Put(ac, i, k)
      tmp1 == CopyTmp(tmp, ac1, n)
  IN  [ac |-> LpcUpdate(ac1, kc1, tmp1, i, 1), kc |-> kc1, tmp |-> tmp1,
       err |-> ErrUpdate(e, k)]

Lags == (-MaxLag)..MaxLag

\* lpc(n_coeffs): n_coeffs + 1 lags, ac of n_coeffs + 1 items, kc and tmp of
\* n_coeffs items.  lpc hands zeroed buffers over, find_formants pieces of a
\* workspace that holds earlier values.
LpcInit ==
  /\ n_coeffs \in 0..MaxOrder
  /\ lags \in [1..(n_coeffs + 1) -> Lags]
  /\ \E fill \in {0, 1} :
       /\ buf_ac = [j \in 1..(n_coeffs + 1) |-> RFromInt(fill)]
       /\ buf_kc = [j \in 1..n_coeffs |-> RFromInt(fill)]
       /\ buf_tmp = [j \in 1..n_coeffs |-> RFromInt(fill)]
  /\ err = RFromInt(0)
  /\ lpc_i = 0
  /\ lpc_pc = "call"

\* let mut err = self[0]; ac[0] = T::one();
LpcEnter ==
  /\ lpc_pc = "call"
  /\ IF Len(lags) > 0 /\ Len(buf_ac) > 0
     THEN /\ err' = RFromInt(At(lags, 0))
          /\ buf_ac' = Put(buf_ac, 0, RFromInt(1))
          /\ lpc_i' = 1
          /\ lpc_pc' = "loop"
     ELSE /\ lpc_pc' = "panic"
          /\ UNCHANGED <<err, buf_ac, lpc_i>>
  /\ UNCHANGED <<lags, n_coeffs, buf_kc, buf_tmp, tvars, pvars, rvars, svars>>

\* One pass of "for i in 1..n_coeffs+1".
LpcOrderStep ==
  /\ lpc_pc = "loop"
  /\ lpc_i <= n_coeffs
  /\ IF LpcPassInRange(lpc_i, n_coeffs, lags, buf_ac, buf_kc, buf_tmp)
     THEN LET o == LpcPass(lpc_i, n_coeffs, lags, buf_ac, buf_kc, buf_tmp,
                           err) IN
          /\ buf_ac' = o.ac
          /\ buf_kc' = o.kc
          /\ buf_tmp' = o.tmp
          /\ err' = o.err
          /\ lpc_i' = lpc_i + 1
          /\ UNCHANGED lpc_pc
     ELSE /\ lpc_pc' = "panic"
          /\ UNCHANGED <<buf_ac, buf_kc, buf_tmp, err, lpc_i>>
  /\ UNCHANGED <<lags, n_coeffs, tvars, pvars, rvars, svars>>

\* The end of the loop: lpc_mut returns.
LpcReturn ==
  /\ lpc_pc = "loop"
  /\ lpc_i = n_coeffs + 1
  /\ lpc_pc' = "done"
  /\ UNCHANGED <<lags, n_coeffs, buf_ac, buf_kc, buf_tmp, err, lpc_i,
                 tvars, pvars, rvars, svars>>

LpcIdle ==
  /\ n_coeffs = 0
  /\ lags = <<>>
  /\ buf_ac = <<>>
  /\ buf_kc = <<>>
  /\ buf_tmp = <<>>
  /\ err = RFromInt(0)
  /\ lpc_i = 0
  /\ lpc_pc = "idle"

\* ------------------------------------------------------------ f32
\* An f32 is the dyadic number m * 2^e held as [m, e] with m odd (or 0 with
\* e = 0); every operation computes the exact result and rounds it to the
\* nearest number of MantBits significant bits, ties to even.  Exponent
\* range, infinities and NaN are left out: the operands met are far from them.
MantBits == 24

Pow2(k) == 2 ^ k

RECURSIVE Norm(_, _)
Norm(m, e) ==
  IF m = 0 THEN [m |-> 0, e |-> 0]
  ELSE IF m % 2 = 0 THEN Norm(m \div 2, e + 1)
  ELSE [m |-> m, e |-> e]

\* usize as f32, for a value below 2^MantBits
F32FromInt(k) == Norm(k, 0)

\* The least s >= from with a < 2^(MantBits + s)
RECURSIVE ShiftFor(_, _)
ShiftFor(a, from) ==
  IF a < Pow2(MantBits) * Pow2(from) THEN from ELSE ShiftFor(a, from + 1)

\* q, or q + 1 when the remainder r of the division by d rounds up
HalfEven(q, r, d) ==
  IF 2 * r > d \/ (2 * r = d /\ q % 2 = 1) THEN q + 1 ELSE q

RoundF32(m, e) ==
  LET a == Abs(m)
      s == ShiftFor(a, 0)
      q == HalfEven(a \div Pow2(s), a % Pow2(s), Pow2(s))
  IN  IF s = 0 THEN Norm(m, e)
      ELSE Norm(IF m < 0 THEN -q ELSE q, e + s)

\* The least k >= from with i * 2^k >= d * 2^(MantBits - 1)
RECURSIVE ScaleFor(_, _, _)
ScaleFor(i, d, from) ==
  IF i * Pow2(from) >= d * Pow2(MantBits - 1) THEN from
  ELSE ScaleFor(i, d, from + 1)

\* (i as f32) / (d as f32) for integers 0 <= i, 0 < d
DivF32(i, d) ==
  IF i = 0 THEN Norm(0, 0)
  ELSE LET k == ScaleFor(i, d, 0)
           num == i * Pow2(k)
       IN  Norm(HalfEven(num \div d, num % d, d), -k)

MulF32(x, y) == RoundF32(x.m * y.m, x.e + y.e)

AddF32(x, y) ==
  LET e == IF x.e < y.e THEN x.e ELSE y.e
  IN  RoundF32(x.m * Pow2(x.e - e) + y.m * Pow2(y.e - e), e)

NegF32(x) == [m |-> -x.m, e |-> x.e]

SubF32(x, y) == AddF32(x, NegF32(y))

\* x.floor() as usize, for x >= 0
FloorF32(x) == IF x.e >= 0 THEN x.m * Pow2(x.e) ELSE x.m \div Pow2(-x.e)

\* x.ceil() as usize, for x >= 0
CeilF32(x) == IF x.e >= 0 THEN x.m * Pow2(x.e) ELSE FloorF32(x) + 1

\* ------------------------------------------------- vox_box_resample_mut_f32
\* Longest enumerated input and output.
MaxSize == 14

\* The body of "for i in 0..new_size" for one i: the two indices read and,
\* when both are inside buf, the value written to resampled[i].  buf is not
\* empty (buf.len() - 1) and new_size is at least 2.
ResampleAt(buf, new_size, i) ==
  LET phase == DivF32(i, new_size - 1)
      index == MulF32(phase, F32FromInt(Len(buf) - 1))
      lo == FloorF32(index)
      hi == CeilF32(index)
      t == SubF32(index, F32FromInt(lo))
  IN  [lo |-> lo, hi |-> hi,
       v |-> IF lo < Len(buf) /\ hi < Len(buf)
             THEN AddF32(At(buf, lo),
                         MulF32(SubF32(At(buf, hi), At(buf, lo)), t))
             ELSE F32FromInt(0)]

\* The enumerated inputs of length n: the steps from 0 to 1 and the ramp.
Inputs(n) ==
  {[j \in 1..n |-> F32FromInt(IF j > k THEN 1 ELSE 0)] : k \in 0..n}
    \cup {[j \in 1..n |-> F32FromInt(j - 1)]}

\* An input of size >= 1 scalars and an output of new_size >= 2 scalars, which
\* holds earlier values.
ResampleInit ==
  /\ \E n \in 1..MaxSize : rs_input \in Inputs(n)
  /\ rs_new_size \in 2..MaxSize
  /\ rs_out = [j \in 1..rs_new_size |-> F32FromInt(1)]
  /\ rs_reads = <<>>
  /\ rs_i = 0
  /\ rs_pc = "loop"

\* One pass of "for i in 0..new_size"; a read outside buf panics.
ResampleStep ==
  /\ rs_pc = "loop"
  /\ rs_i < rs_new_size
  /\ LET o == ResampleAt(rs_input, rs_new_size, rs_i) IN
     /\ rs_reads' = Append(rs_reads, <<o.lo, o.hi>>)
     /\ IF o.lo < Len(rs_input) /\ o.hi < Len(rs_input)
        THEN /\ rs_out' = Put(rs_out, rs_i, o.v)
             /\ rs_i' = rs_i + 1
             /\ UNCHANGED rs_pc
        ELSE /\ rs_pc' = "panic"
             /\ UNCHANGED <<rs_out, rs_i>>
  /\ UNCHANGED <<rs_input, rs_new_size, tvars, pvars, rvars, lvars>>

\* The end of the loop: vox_box_resample_mut_f32 returns.
ResampleReturn ==
  /\ rs_pc = "loop"
  /\ rs_i = rs_new_size
  /\ rs_pc' = "done"
  /\ UNCHANGED <<rs_input, rs_new_size, rs_out, rs_reads, rs_i,
                 tvars, pvars, rvars, lvars>>

ResampleIdle ==
  /\ rs_input = <<>>
  /\ rs_new_size = 0
  /\ rs_out = <<>>
  /\ rs_reads = <<>>
  /\ rs_i = 0
  /\ rs_pc = "idle"

\* The signal-processing functions, not called.
DspIdle == ResonanceIdle /\ LpcIdle /\ ResampleIdle

\* ------------------------------------------------------------ specifications
\* The variables of the component a specification does not exercise.
TrackerIdle ==
  /\ num_formants = 0
  /\ frame_index = 0
  /\ resonances = <<>>
  /\ estimates = <<>>
  /\ ret = [kind |-> "init", val |-> <<>>]
  /\ starting_estimates = <<>>
  /\ pre_estimates = <<>>
  /\ emitted = <<>>

PolyIdle ==
  /\ poly = <<>>
  /\ work = <<>>
  /\ pret = [op |-> "init", res |-> "Ok", other |-> Zero, roots |-> <<>>,
             rem |-> <<>>, passes |-> <<>>]
  /\ pre_poly = <<>>
  /\ pre_work = <<>>
  /\ pcalls = 0

TrackerNext == IteratorNext

TrackerSpecInit == TrackerInit /\ PolyIdle /\ DspIdle

TrackerSpec == TrackerSpecInit /\ [][TrackerNext]_vars

PolyNext == FindRootsCall \/ DivCall

PolySpecInit == PolyInit /\ TrackerIdle /\ DspIdle

PolySpec == PolySpecInit /\ [][PolyNext]_vars

ResonanceNext == ToResonanceCall

ResonanceSpecInit ==
  ResonanceInit /\ TrackerIdle /\ PolyIdle /\ LpcIdle /\ ResampleIdle

ResonanceSpec == ResonanceSpecInit /\ [][ResonanceNext]_vars

LpcNext == LpcEnter \/ LpcOrderStep \/ LpcReturn

LpcSpecInit ==
  LpcInit /\ TrackerIdle /\ PolyIdle /\ ResonanceIdle /\ ResampleIdle

LpcSpec == LpcSpecInit /\ [][LpcNext]_vars

ResampleNext == ResampleStep \/ ResampleReturn

ResampleSpecInit ==
  ResampleInit /\ TrackerIdle /\ PolyIdle /\ ResonanceIdle /\ LpcIdle

ResampleSpec == ResampleSpecInit /\ [][ResampleNext]_vars

\* ------------------------------------------------------ tracker properties
IsTestScenario ==
  /\ num_formants = TestNumFormants
  /\ starting_estimates = TestPrior
  /\ resonances = TestFrames

\* C1: with num_formants = 3, the prior [140, 230, 320] and the three frames
\* of the test, the successive next() calls return [150, 240, 300], then
\* [180, 230, 310], then [230, 270, 290].
C1_TestScenarioOutputs ==
  IsTestScenario =>
    /\ Len(emitted) = frame_index
    /\ ret.kind # "panic"
    /\ \A k \in 1..Len(emitted) : emitted[k] = TestExpected[k]

\* C1 witness: the test scenario after its third frame, whose duplicate
\* removal cleared a slot that the fill step refilled.
C1_Witness ==
  /\ IsTestScenario
  /\ frame_index = 3
  /\ ret.kind = "Some"
  /\ RemoveDuplicates(AssignSlots(pre_estimates, resonances[3]),
                      pre_estimates).has_unassigned

NoDuplicates(s) == \A i, j \in 1..Len(s) : i # j => s[i] # s[j]

\* C2: every vector returned by next() holds no frequency twice.
C2_OutputNoDuplicates == ret.kind = "Some" => NoDuplicates(ret.val)

\* The frame consumed by the last next() that returned Some.
LastFrame == resonances[frame_index]

\* C3: next() completes on a frame shorter than num_formants (an empty one
\* included), and the tail slots that received no resonance keep their
\* previous estimate for the following frame.
C3_ShortFrameTolerated ==
  /\ ret.kind # "panic"
  /\ (ret.kind = "Some" /\ Len(LastFrame) < num_formants) =>
       \A i \in (Len(LastFrame) + 1)..Len(pre_estimates) :
          i <= Len(estimates) /\ estimates[i] = pre_estimates[i]

IsSortedAsc(s) == \A i \in 1..(Len(s) - 1) : s[i] <= s[i + 1]

\* C6: every vector returned by next() is sorted in ascending order.
C6_OutputSorted == ret.kind = "Some" => IsSortedAsc(ret.val)

\* C6 witness: a returned vector whose carried estimates, the same values in
\* slot order, are not ascending.
C6_Witness ==
  /\ ret.kind = "Some"
  /\ Len(ret.val) >= 2
  /\ ~IsSortedAsc(estimates)

\* C7: after each next() that consumed a frame, estimates.len() <= num_formants.
C7_EstimatesWithinNumFormants ==
  frame_index > 0 => Len(estimates) <= num_formants

\* C8: Init -> EmitFrame* -> End.  While frames remain, next() returns Some,
\* consumes the frame at frame_index and advances frame_index by one, so that
\* Some is returned once per frame; once they are exhausted it returns None
\* and leaves estimates and frame_index unchanged.
C8_Step ==
  IF frame_index < Len(resonances)
  THEN /\ ret'.kind = "Some"
       /\ frame_index' = frame_index + 1
       /\ Len(emitted') = frame_index'
       /\ \A i \in 1..Len(ret'.val) :
            \E a \in 1..Len(resonances[frame_index + 1]) :
               ret'.val[i] = resonances[frame_index + 1][a]
  ELSE /\ ret'.kind = "None"
       /\ UNCHANGED <<estimates, frame_index, emitted>>

C8_StateMachine == [][C8_Step]_tvars

\* ---------------------------------------------------- polynomial properties
FindRootsReturned == pret.op = "find_roots_mut"

\* C4: after a successful find_roots_mut on a polynomial of degree d, a call
\* on a workspace that still holds earlier contents included, self[0..d) is
\* the list of the d roots in the order they were found and self[d..] is zero.
C4_RootsThenZeros ==
  (FindRootsReturned /\ pret.res = "Ok") =>
    LET d == Degree(pre_poly) IN
    /\ Len(pret.roots) = d
    /\ \A i \in 0..(d - 1) : At(poly, i) = At(pret.roots, i)
    /\ \A i \in d..(Len(poly) - 1) : At(poly, i) = Zero

\* C5: on a polynomial of degree >= 1 whose lowest non-zero coefficient is at
\* index lo > 0, find_roots_mut succeeds and its root list is lo zero roots
\* followed by the degree - lo roots of the polynomial divided by z^lo.
C5_LowOffsetZeroRoots ==
  (FindRootsReturned /\ Degree(pre_poly) >= 1 /\ OffLow(pre_poly) > 0) =>
    LET d == Degree(pre_poly)
        lo == OffLow(pre_poly)
    IN  /\ pret.res = "Ok"
        /\ Len(pret.roots) = d
        /\ \A i \in 0..(lo - 1) : At(pret.roots, i) = Zero
        /\ \A i \in 0..(d - 1) : At(poly, i) = At(pret.roots, i)

\* C9: on an input of degree less than 1 (a constant, or the zero polynomial)
\* find_roots_mut returns the error and changes neither self nor the workspace.
C9_ZeroDegreeError ==
  (FindRootsReturned /\ Degree(pre_poly) < 1) =>
    /\ pret.res = "Err"
    /\ poly = pre_poly
    /\ work = pre_work

\* C9 witness: the call returned on a non-zero constant, handed a workspace
\* that holds non-zero values.
C9_Witness ==
  /\ FindRootsReturned
  /\ Degree(pre_poly) < 1
  /\ Len(pre_poly) > 1
  /\ At(pre_poly, 0) # Zero
  /\ At(pre_work, 0) # Zero
  /\ pret.res = "Err"

\* C10: div_polynomial_mut returns the divide-by-zero error if and only if
\* other is zero, returns Ok for every non-zero other, and leaves the
\* coefficients of self unchanged when it returns the error.
C10_DivideByZeroOnly ==
  pret.op = "div_polynomial_mut" =>
    /\ pret.res = "Err" <=> pret.other = Zero
    /\ pret.other # Zero => pret.res = "Ok"
    /\ pret.res = "Err" => poly = pre_poly

\* ----------------------------------------------------- resonance properties
ToResonanceReturned == rret.op = "to_resonance"

\* C11: the list returned by to_resonance never holds two entries with the
\* same frequency, whatever the roots (roots of one argument and different
\* moduli, and repeated roots, included).
C11_DistinctFrequencies ==
  ToResonanceReturned =>
    \A i, j \in 1..Len(rret.res) :
       i # j => rret.res[i].frequency # rret.res[j].frequency

\* C12: from_root yields a resonance for a root if and only if im > 0 and the
\* frequency atan2(im, re) * fs / (2 pi) is above 1 Hz; a root on the real
\* axis yields none.
C12_ResonanceIffUpperHalf ==
  ToResonanceReturned =>
    \A i \in 1..Len(root_list) :
       rret.opts[i].some <=>
         /\ root_list[i].im > 0
         /\ Atan2(root_list[i].im, root_list[i].re) * sample_rate > OneHz

\* ----------------------------------------------------------- lpc properties
LpcEntered == lpc_pc \in {"loop", "done"}

\* The reflection coefficients computed so far are all of modulus <= 1.
ReflectionsBounded == \A j \in 0..(lpc_i - 2) : RAbsLeqOne(At(buf_kc, j))

\* C13 as stated: for every input with R[0] > 0 and every n_coeffs, err is
\* >= 0 after every pass of the order loop and when lpc_mut returns.
C13_ErrNonNegative ==
  (LpcEntered /\ At(lags, 0) > 0) => RGeqZero(err)

\* C13: for every input with R[0] > 0 and every n_coeffs, err is >= 0 after
\* every pass of the order loop and when lpc_mut returns, as long as every
\* reflection coefficient computed so far has modulus <= 1.
C13_ErrNonNegativeWhileBounded ==
  (LpcEntered /\ At(lags, 0) > 0 /\ ReflectionsBounded) => RGeqZero(err)

\* C13 witness: lpc_mut returned from an order >= 2 with R[0] > 0, bounded
\* reflection coefficients, one of them not zero, and err > 0.
C13_Witness ==
  /\ lpc_pc = "done"
  /\ n_coeffs >= 2
  /\ At(lags, 0) > 0
  /\ ReflectionsBounded
  /\ \E j \in 0..(n_coeffs - 1) : At(buf_kc, j).n # 0
  /\ err.n > 0

\* C14: with n_coeffs + 1 lags, ac of exactly n_coeffs + 1 items, kc and tmp
\* of exactly n_coeffs items, lpc_mut uses in-range indices only (it does not
\* panic) for every n_coeffs >= 1, and returns with ac[0] = 1.
C14_LpcInRange ==
  n_coeffs >= 1 =>
    /\ lpc_pc # "panic"
    /\ lpc_pc = "done" => At(buf_ac, 0) = RFromInt(1)

\* C14 witness: lpc_mut returned from the highest enumerated order, on
\* buffers that held non-zero values.
C14_Witness ==
  /\ lpc_pc = "done"
  /\ n_coeffs = MaxOrder
  /\ lpc_i = n_coeffs + 1
  /\ At(buf_tmp, n_coeffs - 1) # RFromInt(0)
  /\ IsFinite(err)


\* C15: on a polynomial of degree >= 1, of working degree m = degree -
\* off_low, find_roots_mut terminates without an error after exactly
\* max(0, m - 2) passes of the Laguerre-and-deflation loop, each made of a
\* Laguerre run of at most 20 iterations and lowering the degree by exactly
\* one, and then runs the quadratic or linear closer.
C15_DeflationPasses ==
  (FindRootsReturned /\ Degree(pre_poly) >= 1) =>
    LET m == Degree(pre_poly) - OffLow(pre_poly) IN
    /\ pret.res = "Ok"
    /\ Len(pret.passes) = (IF m > 2 THEN m - 2 ELSE 0)
    /\ \A i \in 1..Len(pret.passes) :
         /\ pret.passes[i].iters <= LaguerreMaxIter
         /\ pret.passes[i].to = pret.passes[i].from - 1
    /\ Len(pret.roots) = Degree(pre_poly)


\* ------------------------------------------------------ resample properties
\* C16: resampling an input of length N >= 1 to a length M >= 2 reads only
\* indices 0 .. N - 1, gives out[0] = src[0] and out[M-1] = src[N-1], and
\* when M = N gives the input back element for element.
C16_ResampleExact ==
  /\ rs_pc # "panic"
  /\ \A i \in 1..Len(rs_reads) :
       rs_reads[i][1] < Len(rs_input) /\ rs_reads[i][2] < Len(rs_input)
  /\ rs_pc = "done" =>
       /\ At(rs_out, 0) = At(rs_input, 0)
       /\ At(rs_out, rs_new_size - 1) = At(rs_input, Len(rs_input) - 1)
       /\ rs_new_size = Len(rs_input) => rs_out = rs_input


\* ------------------------------------------- properties of the steps of next
\* The slots after step 1 and after step 2 of the last next() that returned
\* Some, and the slots that hold the peak p.
AssignedSlots == AssignSlots(pre_estimates, LastFrame)

SweptSlots == RemoveDuplicates(AssignedSlots, pre_estimates).slots

Holders(slots, p) == {i \in 1..Len(slots) : slots[i] = Some(p)}

\* C17: a peak that step 1 put in more than one slot is, after the sweep of
\* step 2, in exactly one slot, the one among them whose estimate is closest
\* to the peak (the leftmost at equal distance), and the other slots that
\* held it are cleared, whatever the order of the estimates.
C17_SweepKeepsClosest ==
  ret.kind = "Some" =>
    \A a \in 1..Len(LastFrame) :
       LET p == LastFrame[a]
           held == Holders(AssignedSlots, p)
           kept == Holders(SweptSlots, p)
       IN  Cardinality(held) > 1 =>
             /\ Cardinality(kept) = 1
             /\ \A i \in kept :
                  /\ i \in held
                  /\ \A j \in held :
                       \/ Abs(p - pre_estimates[i]) < Abs(p - pre_estimates[j])
                       \/ /\ Abs(p - pre_estimates[i]) = Abs(p - pre_estimates[j])
                          /\ i <= j
             /\ \A j \in held \ kept : ~SweptSlots[j].some

\* The index of the frame element that step 1 is to pick for the estimate e:
\* the lowest among those at the least distance from e.
LowestNearest(frame, e) ==
  Lowest({a \in 1..Len(frame) :
            \A b \in 1..Len(frame) : Abs(frame[a] - e) <= Abs(frame[b] - e)})

\* C18: step 1 gives each slot i the frame element that minimises
\* |p - estimate_i| over the whole frame, the one of lowest index in the frame
\* when several are at the least distance.
C18_NearestLowestIndex ==
  ret.kind = "Some" =>
    \A i \in 1..Len(pre_estimates) :
       AssignedSlots[i] = Some(LastFrame[LowestNearest(LastFrame, pre_estimates[i])])

\* C18 witness: a slot whose estimate lies midway between two different frame
\* elements, the farther in the frame being the smaller.
C18_Witness ==
  /\ ret.kind = "Some"
  /\ \E i \in 1..Len(pre_estimates) : \E a, b \in 1..Len(LastFrame) :
        /\ a < b
        /\ LastFrame[a] > LastFrame[b]
        /\ Abs(LastFrame[a] - pre_estimates[i]) = Abs(LastFrame[b] - pre_estimates[i])
        /\ LowestNearest(LastFrame, pre_estimates[i]) = a


\* The coefficient of z^i of the slice s, zero beyond its end.
CoeffAt(s, i) == IF i < Len(s) THEN At(s, i) ELSE Zero

\* C19: for every coefficient slice (constants included) and every non-zero
\* other, div_polynomial_mut completes and leaves in self the quotient q of
\* the original p by z + other: p = q * (z + other) + r for a constant r, with
\* degree(q) = degree(p) - 1 when degree(p) >= 1 and nothing but zeros above
\* degree(q).
C19_QuotientByLinearFactor ==
  (pret.op = "div_polynomial_mut" /\ pret.other # Zero) =>
    /\ pret.res = "Ok"
    /\ \A i \in 1..Len(pre_poly) :
         CoeffAt(pre_poly, i) =
           Add(CoeffAt(poly, i - 1), Mul(pret.other, CoeffAt(poly, i)))
    /\ Degree(pre_poly) >= 1 =>
         /\ Degree(poly) = Degree(pre_poly) - 1
         /\ \A i \in Degree(pre_poly)..(Len(poly) - 1) : At(poly, i) = Zero


\* The slice that the first Laguerre run of the last find_roots_mut worked
\* on: coeffs, which then holds self[0 ..= degree].
FirstCoeffs == Slice(pre_poly, 0, Degree(pre_poly) + 1)

\* C20: in every Laguerre iteration the value under the square root is
\* (n - 1) * (n * H - G^2), n being the degree the iteration uses and G and
\* H the terms it computed.
C20_UnderRootFormula ==
  (FindRootsReturned /\ Len(pret.passes) >= 1) =>
    LET c == FirstCoeffs
        n == Len(c) - 1
    IN  \A z \in LaguerreIterates(c, {Start}, 0) :
           UnderRoot(c, z) =
             Mul(FromInt(n - 1),
                 Subtract(Mul(FromInt(n), LaguerreH(c, z)),
                          Mul(LaguerreG(c, z), LaguerreG(c, z))))

\* ---------------------------------------------- the life of the estimates
\* One call of next(): estimates does not get longer, and from empty
\* estimates a frame is answered with the empty vector.
C21_Step ==
  /\ Len(estimates') <= Len(estimates)
  /\ (Len(estimates) = 0 /\ ret'.kind = "Some") =>
        /\ ret'.val = <<>>
        /\ estimates' = <<>>

\* C21: the number of tracked formants never grows: after each frame
\* estimates.len() is at most its value before the frame, so a slot that was
\* lost is never regained on a later frame, and once estimates is empty every
\* later emitted vector is empty.
C21_NeverGrows == [][C21_Step]_tvars

\* A slot was lost on the first frame and the second frame, which has more
\* peaks than there are estimates left, has been answered.
C21_Witness ==
  /\ frame_index = 2
  /\ ret.kind = "Some"
  /\ Len(pre_estimates) < Len(starting_estimates)
  /\ Len(LastFrame) > Len(pre_estimates)

\* ------------------------------------------------------- the fill step
\* Whether the sweep of the last next() cleared a slot, so that the fill
\* step ran, and the slots the fill step left.
FillRan == RemoveDuplicates(AssignedSlots, pre_estimates).has_unassigned

FilledSlots == Fill(SweptSlots, LastFrame, 1)

EmptySlots(slots) == {i \in 1..Len(slots) : ~slots[i].some}

\* The peaks of the frame of the last next(); a slot holds none but these.
FramePeaks == {LastFrame[j] : j \in 1..Len(LastFrame)}

NewPeaks ==
  {p \in FramePeaks : /\ Holders(SweptSlots, p) = {}
                      /\ Holders(FilledSlots, p) # {}}

\* C22: the fill step writes a peak only into a slot that is empty when it is
\* written and stays inside the slots: the slot count is unchanged, every
\* peak held after the sweep is held as often after the fill, a peak that no
\* slot held is placed at most once, and the empty slots decrease by one for
\* each peak placed.
C22_FillOnlyEmptySlots ==
  (frame_index > 0 /\ ret.kind = "Some" /\ FillRan) =>
    /\ estimates = Winners(FilledSlots)
    /\ Len(FilledSlots) = Len(SweptSlots)
    /\ DOMAIN FilledSlots = 1..Len(SweptSlots)
    /\ \A i \in 1..Len(FilledSlots) :
         FilledSlots[i].some => FilledSlots[i].v \in FramePeaks
    /\ \A p \in FramePeaks :
         IF Holders(SweptSlots, p) # {}
         THEN Cardinality(Holders(FilledSlots, p)) =
                Cardinality(Holders(SweptSlots, p))
         ELSE Cardinality(Holders(FilledSlots, p)) <= 1
    /\ Cardinality(EmptySlots(FilledSlots)) =
         Cardinality(EmptySlots(SweptSlots)) - Cardinality(NewPeaks)

\* The fill step moved a held peak into the empty neighbour and placed a new
\* peak in the slot it left.
C22_Witness ==
  /\ frame_index > 0
  /\ ret.kind = "Some"
  /\ FillRan
  /\ NewPeaks # {}
  /\ \E i \in 1..Len(SweptSlots) :
        /\ SweptSlots[i].some
        /\ FilledSlots[i].some
        /\ FilledSlots[i] # SweptSlots[i]

\* ------------------------------------------- the degree of a Laguerre run
\* C23: each Laguerre run of the deflation loop of find_roots_mut uses as its
\* degree n the working degree m that the loop has reached, on every pass.
C23_LaguerreDegreeIsWorkingDegree ==
  FindRootsReturned =>
    \A i \in 1..Len(pret.passes) : pret.passes[i].n = pret.passes[i].m

=============================================================================
